---- MODULE Spec2Model ----
(***************************************************************************)
(* A model of src/script.py, the PDFTool command set: merge_pdfs,          *)
(* split_pdf, rotate_pdf, add_watermark and create_sample_pdf.             *)
(*                                                                         *)
(* The file system is a partial function from paths to files.  A file is   *)
(* a loadable PDF (a sequence of pages), a file that exists but does not   *)
(* load, or a file left behind by a write that raised part-way.  A page    *)
(* carries its provenance (src, no), its content stream (a sequence of     *)
(* operator tokens), its MediaBox and its /Rotate value.                   *)
(*                                                                         *)
(* Every handler is run to completion before the next one is dispatched    *)
(* (the program is single-threaded); its loops are stepped one iteration   *)
(* per action, with pc holding the position inside the handler.            *)
(*                                                                         *)
(* Calls into PyPDF2 and reportlab are modelled by what those calls do:    *)
(* PdfMerger.append concatenates the pages of the appended file,           *)
(* PageObject.rotate adds the angle to /Rotate, PageObject.merge_page      *)
(* brackets the page's own stream in q ... Q and appends the clipped       *)
(* overlay stream in a second q ... Q, Canvas.showPage closes the current  *)
(* page and increments the page counter, and Canvas.save closes the last   *)
(* page if anything was drawn on it.                                       *)
(***************************************************************************)
EXTENDS Integers, Sequences, FiniteSets, TLC

VARIABLES
    fs,         \* the file system: path -> file
    fs0,        \* the file system as it was when the running call was dispatched
    script,     \* the calls still to be made, in order
    op,         \* the call being run: its name and arguments
    prev,       \* the call that was run before it
    pc,         \* the position inside the running handler
    result,     \* "none" while running, then "ok" (True) or "fail" (False)
    acc,        \* the pages accumulated in the PdfMerger / PdfWriter
    idx,        \* the loop index of the running handler
    reader,     \* the pages of the PdfReader opened on the input file
    created,    \* the paths this call has written, in the order written
    canvas,     \* the reportlab canvas: finished pages, current page, page counter
    y,          \* create_sample_pdf's y_position
    crossings,  \* how many times y_position went from >= 50 to < 50
    breaks      \* how many times the body loop called showPage

vars == <<fs, fs0, script, op, prev, prev, pc, result, acc, idx, reader, created, canvas, y, crossings, breaks>>

----------------------------------------------------------------------------
(* Bounds of the model. *)

MaxDocPages == 2

MaxPages == 5

MaxK == 3

MaxInputs == 3

MaxNewlines == 70

----------------------------------------------------------------------------
(* Constants of the program. *)

PageWidth == 612

PageHeight == 792

RightAngle == 90

BottomMargin == 50

TopMargin == 50

TitleX == 100

TitleDrop == 100

BodyX == 100

BodyDrop == 150

LineStep == 20

LabelInset == 100

LabelY == 30

----------------------------------------------------------------------------
(* Paths, files and pages. *)

Min(a, b) == IF a < b THEN a ELSE b

P(stem) == [dir |-> "", stem |-> stem, tag |-> "", from |-> 0, to |-> 0]

NoPath == P("")

TempWatermark == P("temp_watermark")

\* Path(input_file).stem
Stem(path) == path.stem

\* A file name that leaves out the chunk's first page: every chunk gets the same name.
ChunkPathMut(outdir, base, k, i, end) ==
    [dir |-> outdir, stem |-> base, tag |-> "pages", from |-> 1, to |-> 0]

\* f"{base_name}_page_{i+1}.pdf" when pages_per_file == 1, otherwise
\* f"{base_name}_pages_{i+1}-{end_page}.pdf", joined to output_dir.
ChunkPath(outdir, base, k, i, end) ==
    IF k = 1
    THEN [dir |-> outdir, stem |-> base, tag |-> "page", from |-> i + 1, to |-> 0]
    ELSE [dir |-> outdir, stem |-> base, tag |-> "pages", from |-> i + 1, to |-> end]

PdfFile(pages) == [kind |-> "pdf", pages |-> pages]

GarbageFile == [kind |-> "garbage", pages |-> <<>>]

PartialFile == [kind |-> "partial", pages |-> <<>>]

Tokens == <<"BT", "Tj", "ET">>

Boxes == <<"letter", "a4">>

\* The pages of the documents the calls are given: page i of file stem has a
\* content stream of (i - 1) % 4 operators, so that a document has pages with
\* and without content, and pages alternate between two MediaBoxes.
PageOf(stem, i, r) ==
    [src |-> stem, no |-> i,
     content |-> SubSeq(Tokens, 1, (i - 1) % 4),
     box |-> Boxes[1 + (i % 2)],
     rotate |-> r]

Doc(stem, n, r) == [i \in 1..n |-> PageOf(stem, i, r)]

\* os.path.exists(file_path)
InputMissing(fsys, p) == p \notin DOMAIN fsys

\* A reader that never raises: a file that does not parse loads as no pages.
LoadableMut(f) == TRUE

\* PdfReader(file) / merger.append(file_path) parse the file or raise.
Loadable(f) == f.kind = "pdf"

IOFaults == {"none", "open", "write"}

\* with open(path, 'wb') as output: writer.write(output)
\* open may raise (nothing is created); write may raise after open has
\* created or truncated the file; otherwise the file holds the pages.
WriteFile(fsys, path, pages, fault) ==
    CASE fault = "open"  -> fsys
      [] fault = "write" -> (path :> PartialFile) @@ fsys
      [] OTHER           -> (path :> PdfFile(pages)) @@ fsys

----------------------------------------------------------------------------
(* Calls. *)

Call(name) ==
    [name |-> name, inputs |-> <<>>, input |-> NoPath, output |-> NoPath,
     outdir |-> "", k |-> 1, angle |-> 0, text |-> "", newlines |-> 0]

CallMerge(inputs, out) == [Call("merge") EXCEPT !.inputs = inputs, !.output = out]

CallSplit(in, outdir, k) == [Call("split") EXCEPT !.input = in, !.outdir = outdir, !.k = k]

CallRotate(in, angle, out) ==
    [Call("rotate") EXCEPT !.input = in, !.angle = angle, !.output = out]

CallWatermark(in, text, out) ==
    [Call("watermark") EXCEPT !.input = in, !.text = text, !.output = out]

CallCreate(out, newlines) == [Call("create") EXCEPT !.output = out, !.newlines = newlines]

EmptyCanvas == [pages |-> <<>>, code |-> <<>>, pageNumber |-> 1]

Entry(name) ==
    CASE name = "merge"     -> "merge_loop"
      [] name = "split"     -> "split_begin"
      [] name = "rotate"    -> "rotate_begin"
      [] name = "watermark" -> "wm_begin"
      [] OTHER              -> "create_begin"

\* main(): one call of a PDFTool method; the handler starts from fresh locals.
Start(call) ==
    /\ op' = call
    /\ prev' = op
    /\ pc' = Entry(call.name)
    /\ result' = "none"
    /\ acc' = <<>>
    /\ idx' = IF call.name = "split" THEN 0 ELSE 1
    /\ reader' = <<>>
    /\ created' = <<>>
    /\ canvas' = EmptyCanvas
    /\ y' = 0
    /\ crossings' = 0
    /\ breaks' = 0
    /\ fs0' = fs

Dispatch ==
    /\ pc \in {"idle", "done"}
    /\ script # <<>>
    /\ Start(Head(script))
    /\ script' = Tail(script)
    /\ UNCHANGED fs

\* return True / return False (also through except Exception)
Return(r) ==
    /\ pc' = "done"
    /\ result' = r

----------------------------------------------------------------------------
(* merge_pdfs *)

\* An append that puts the file's pages in front of the merger's.
MergerAppendMut(a, pages) == pages \o a

\* merger.append(file_path): the file's pages go to the end of the merger.
MergerAppend(a, pages) == a \o pages

\* One iteration of "for file_path in input_files".
MergeStep ==
    /\ pc = "merge_loop"
    /\ idx <= Len(op.inputs)
    /\ LET p == op.inputs[idx] IN
        IF InputMissing(fs, p) \/ ~Loadable(fs[p])
        THEN /\ Return("fail")
             /\ UNCHANGED <<acc, idx>>
        ELSE /\ acc' = MergerAppend(acc, fs[p].pages)
             /\ idx' = idx + 1
             /\ UNCHANGED <<pc, result>>
    /\ UNCHANGED <<fs, fs0, script, op, prev, reader, created, canvas, y, crossings, breaks>>

\* with open(output_file, 'wb') as output: merger.write(output)
MergeWrite ==
    /\ pc = "merge_loop"
    /\ idx > Len(op.inputs)
    /\ \E fault \in IOFaults :
        /\ fs' = WriteFile(fs, op.output, acc, fault)
        /\ Return(IF fault = "none" THEN "ok" ELSE "fail")
        /\ created' = IF fault = "none" THEN Append(created, op.output) ELSE created
    /\ UNCHANGED <<fs0, script, op, prev, acc, idx, reader, canvas, y, crossings, breaks>>

----------------------------------------------------------------------------
(* split_pdf *)

\* range(0, total_pages, pages_per_file) still has i to yield.
InRange(i, stop, step) == IF step > 0 THEN i < stop ELSE i > stop

\* An end_page that stops one page short of the document's end.
ChunkEndMut(i, k, total) == Min(i + k, total - 1)

\* end_page = min(i + pages_per_file, total_pages)
ChunkEnd(i, k, total) == Min(i + k, total)

\* for page_num in range(i, end_page): writer.add_page(reader.pages[page_num])
ChunkPages(pages, i, end) == SubSeq(pages, i + 1, end)

\* The existence check, PdfReader(file), and range(...) itself, which raises
\* ValueError on a step of zero.
SplitBegin ==
    /\ pc = "split_begin"
    /\ IF InputMissing(fs, op.input) \/ ~Loadable(fs[op.input]) \/ op.k = 0
       THEN /\ Return("fail")
            /\ UNCHANGED reader
       ELSE /\ reader' = fs[op.input].pages
            /\ pc' = "split_loop"
            /\ UNCHANGED result
    /\ UNCHANGED <<fs, fs0, script, op, prev, acc, idx, created, canvas, y, crossings, breaks>>

\* One iteration of "for i in range(0, total_pages, pages_per_file)".
SplitChunk ==
    /\ pc = "split_loop"
    /\ InRange(idx, Len(reader), op.k)
    /\ LET end   == ChunkEnd(idx, op.k, Len(reader))
           path  == ChunkPath(op.outdir, Stem(op.input), op.k, idx, end)
           chunk == ChunkPages(reader, idx, end)
       IN \E fault \in IOFaults :
            /\ fs' = WriteFile(fs, path, chunk, fault)
            /\ acc' = chunk
            /\ IF fault = "none"
               THEN /\ created' = Append(created, path)
                    /\ idx' = idx + op.k
                    /\ UNCHANGED <<pc, result>>
               ELSE /\ Return("fail")
                    /\ UNCHANGED <<created, idx>>
    /\ UNCHANGED <<fs0, script, op, prev, reader, canvas, y, crossings, breaks>>

\* The range is exhausted: return True.
SplitDone ==
    /\ pc = "split_loop"
    /\ ~InRange(idx, Len(reader), op.k)
    /\ Return("ok")
    /\ UNCHANGED <<fs, fs0, script, op, prev, acc, idx, reader, created, canvas, y, crossings, breaks>>

\* The user merges the files a successful split has just created, in the
\* order split created them.
DispatchMergeChunks ==
    /\ pc = "done"
    /\ op.name = "split"
    /\ result = "ok"
    /\ script = <<>>
    /\ Start(CallMerge(created, P("merged")))
    /\ UNCHANGED <<fs, script>>

----------------------------------------------------------------------------
(* rotate_pdf *)

\* A rotate_pdf without the angle check.
AngleAcceptedMut(angle) == TRUE

\* if angle % 90 != 0: return False
AngleAccepted(angle) == angle % RightAngle = 0

\* A rotate that also turns the MediaBox on a quarter turn.
PageRotateMut(page, angle) ==
    [page EXCEPT !.rotate = @ + angle,
                 !.box = IF (angle % 180) = 0 THEN @ ELSE "rotated"]

\* page.rotate(angle): /Rotate becomes the current /Rotate plus angle.
PageRotate(page, angle) == [page EXCEPT !.rotate = @ + angle]

\* The two checks, PdfReader(file) and "for page in reader.pages".
RotateBegin ==
    /\ pc = "rotate_begin"
    /\ IF InputMissing(fs, op.input) \/ ~AngleAccepted(op.angle) \/ ~Loadable(fs[op.input])
       THEN /\ Return("fail")
            /\ UNCHANGED <<reader, acc>>
       ELSE /\ reader' = fs[op.input].pages
            /\ acc' = [i \in 1..Len(fs[op.input].pages) |->
                          PageRotate(fs[op.input].pages[i], op.angle)]
            /\ pc' = "rotate_write"
            /\ UNCHANGED result
    /\ UNCHANGED <<fs, fs0, script, op, prev, idx, created, canvas, y, crossings, breaks>>

\* with open(output_file, 'wb') as output: writer.write(output)
RotateWrite ==
    /\ pc = "rotate_write"
    /\ \E fault \in IOFaults :
        /\ fs' = WriteFile(fs, op.output, acc, fault)
        /\ Return(IF fault = "none" THEN "ok" ELSE "fail")
        /\ created' = IF fault = "none" THEN Append(created, op.output) ELSE created
    /\ UNCHANGED <<fs0, script, op, prev, acc, idx, reader, canvas, y, crossings, breaks>>

----------------------------------------------------------------------------
(* add_watermark *)

\* setFont, setFillAlpha, rotate, drawString on the watermark canvas.
OverlayPage(text) ==
    [src |-> "temp_watermark", no |-> 1,
     content |-> <<"Tf", "gs", "cm", text, "Tj">>,
     box |-> "letter", rotate |-> 0]

\* os.remove(watermark_file)
Remove(fsys, path) == [p \in DOMAIN fsys \ {path} |-> fsys[p]]

\* A merge_page that replaces the page's stream by the overlay's.
MergePageMut(page, wm) ==
    [page EXCEPT !.content = <<"q", "re", "W", "n">> \o wm.content \o <<"Q">>]

\* page.merge_page(watermark_page): the page's own stream, if it has one, is
\* bracketed in q ... Q; the overlay's stream follows, clipped to its box and
\* bracketed the same way.
MergePage(page, wm) ==
    [page EXCEPT !.content =
        (IF @ = <<>> THEN <<>> ELSE <<"q">> \o @ \o <<"Q">>)
            \o <<"q", "re", "W", "n">> \o wm.content \o <<"Q">>]

\* The existence check, then the watermark canvas is drawn and saved.
WmBegin ==
    /\ pc = "wm_begin"
    /\ IF InputMissing(fs, op.input)
       THEN /\ Return("fail")
            /\ UNCHANGED fs
       ELSE \E fault \in IOFaults :
            /\ fs' = WriteFile(fs, TempWatermark, <<OverlayPage(op.text)>>, fault)
            /\ IF fault = "none"
               THEN pc' = "wm_read" /\ UNCHANGED result
               ELSE Return("fail")
    /\ UNCHANGED <<fs0, script, op, prev, acc, idx, reader, created, canvas, y, crossings, breaks>>

\* PdfReader(file) on the input, PdfReader(wm_file) on the overlay.
WmRead ==
    /\ pc = "wm_read"
    /\ IF ~Loadable(fs[op.input]) \/ ~Loadable(fs[TempWatermark])
       THEN /\ Return("fail")
            /\ UNCHANGED reader
       ELSE /\ reader' = fs[op.input].pages
            /\ pc' = "wm_loop"
            /\ UNCHANGED result
    /\ UNCHANGED <<fs, fs0, script, op, prev, acc, idx, created, canvas, y, crossings, breaks>>

\* One iteration of "for page in reader.pages"; merge_page may raise.
WmPage ==
    /\ pc = "wm_loop"
    /\ idx <= Len(reader)
    /\ \E raised \in BOOLEAN :
        IF raised
        THEN /\ Return("fail")
             /\ UNCHANGED <<acc, idx>>
        ELSE /\ acc' = Append(acc, MergePage(reader[idx], fs[TempWatermark].pages[1]))
             /\ idx' = idx + 1
             /\ UNCHANGED <<pc, result>>
    /\ UNCHANGED <<fs, fs0, script, op, prev, reader, created, canvas, y, crossings, breaks>>

\* writer.write(output), then os.remove(watermark_file), then return True.
WmWrite ==
    /\ pc = "wm_loop"
    /\ idx > Len(reader)
    /\ \E fault \in IOFaults :
        /\ fs' = IF fault = "none"
                 THEN Remove(WriteFile(fs, op.output, acc, fault), TempWatermark)
                 ELSE WriteFile(fs, op.output, acc, fault)
        /\ Return(IF fault = "none" THEN "ok" ELSE "fail")
        /\ created' = IF fault = "none" THEN Append(created, op.output) ELSE created
    /\ UNCHANGED <<fs0, script, op, prev, acc, idx, reader, canvas, y, crossings, breaks>>

----------------------------------------------------------------------------
(* create_sample_pdf *)

\* lines = content.split('\n'): a content with n newlines splits into n + 1 lines.
NumLines(newlines) == newlines + 1

\* c.drawString(x, y, ...) adds to the current page.
Draw(c, kind, x, yy, n) ==
    [c EXCEPT !.code = Append(@, [kind |-> kind, x |-> x, y |-> yy, n |-> n])]

\* c.showPage(): the current page is finished and the page counter advances.
ShowPage(c) ==
    [pages |-> Append(c.pages, c.code), code |-> <<>>, pageNumber |-> c.pageNumber + 1]

\* c.save(): the current page is finished if anything was drawn on it.
Save(c) == IF c.code # <<>> THEN ShowPage(c) ELSE c

\* c.getPageNumber()
GetPageNumber(c) == c.pageNumber

\* A page break taken only at the bottom edge of the page, not at the margin.
NeedsNewPageMut(yy) == yy < 0

\* if y_position < 50
NeedsNewPage(yy) == yy < BottomMargin

\* y_position = height - 50
TopOfPage == PageHeight - TopMargin

\* The pages the canvas writes, as pages of a file.
CanvasDoc(stem, c) ==
    [i \in 1..Len(c.pages) |->
        [src |-> stem, no |-> i, content |-> c.pages[i], box |-> "letter", rotate |-> 0]]

\* Canvas(output_file), the title, y_position = height - 150.
CreateBegin ==
    /\ pc = "create_begin"
    /\ canvas' = Draw(EmptyCanvas, "title", TitleX, PageHeight - TitleDrop, 0)
    /\ y' = PageHeight - BodyDrop
    /\ pc' = "create_loop"
    /\ UNCHANGED <<fs, fs0, script, op, prev, result, acc, idx, reader, created, crossings, breaks>>

\* One iteration of "for line in lines".
CreateLine ==
    /\ pc = "create_loop"
    /\ idx <= NumLines(op.newlines)
    /\ LET fresh == NeedsNewPage(y)
           c1    == IF fresh THEN ShowPage(canvas) ELSE canvas
           y1    == IF fresh THEN TopOfPage ELSE y
       IN /\ canvas' = Draw(c1, "line", BodyX, y1, idx)
          /\ y' = y1 - LineStep
          /\ breaks' = IF fresh THEN breaks + 1 ELSE breaks
          /\ crossings' = IF y1 >= BottomMargin /\ y1 - LineStep < BottomMargin
                          THEN crossings + 1 ELSE crossings
    /\ idx' = idx + 1
    /\ UNCHANGED <<fs, fs0, script, op, prev, pc, result, acc, reader, created>>

\* The page-number label, drawn once after the loop, then c.save().
CreateSave ==
    /\ pc = "create_loop"
    /\ idx > NumLines(op.newlines)
    /\ LET c1 == Draw(canvas, "label", PageWidth - LabelInset, LabelY, GetPageNumber(canvas))
           c2 == Save(c1)
       IN \E fault \in IOFaults :
            /\ canvas' = c2
            /\ fs' = WriteFile(fs, op.output, CanvasDoc(Stem(op.output), c2), fault)
            /\ Return(IF fault = "none" THEN "ok" ELSE "fail")
            /\ created' = IF fault = "none" THEN Append(created, op.output) ELSE created
    /\ UNCHANGED <<fs0, script, op, prev, acc, idx, reader, y, crossings, breaks>>

----------------------------------------------------------------------------
(* The calls the model makes and the files they find. *)

BoundedSeq(S, n) == UNION {[1..m -> S] : m \in 0..n}

\* What a path holds before the calls: nothing (-2), a file that does not
\* load (-1), or a document of n >= 0 pages whose pages have /Rotate r.
MkFile(stem, n, r) == IF n = -1 THEN GarbageFile ELSE PdfFile(Doc(stem, n, r))

MkFs(ch, r) == [p \in {P(s) : s \in {t \in DOMAIN ch : ch[t] # -2}} |-> MkFile(p.stem, ch[p.stem], r)]

Angles == {-90, 0, 45, 90, 91, 180, 270, 360, 450}

Rotations == {0, 90, 270}

AssocScript ==
    << CallMerge(<<P("A"), P("B")>>, P("AB")),
       CallMerge(<<P("AB"), P("C")>>, P("AB_C")),
       CallMerge(<<P("A"), P("B"), P("C")>>, P("ABC")) >>

Idle ==
    /\ pc = "idle"
    /\ op = Call("none")
    /\ prev = Call("none")
    /\ result = "none"
    /\ acc = <<>>
    /\ idx = 1
    /\ reader = <<>>
    /\ created = <<>>
    /\ canvas = EmptyCanvas
    /\ y = 0
    /\ crossings = 0
    /\ breaks = 0
    /\ fs0 = fs

InitMerge ==
    /\ \E ch \in [{"A", "B", "C"} -> -2..MaxDocPages] : fs = MkFs(ch, 0)
    /\ \/ \E ins \in BoundedSeq({P("A"), P("B"), P("C")}, MaxInputs) :
            script = <<CallMerge(ins, P("out"))>>
       \/ script = AssocScript
    /\ Idle

InitSplit ==
    /\ \E n \in -2..MaxPages : fs = MkFs([s \in {"D"} |-> n], 0)
    /\ \E k \in -1..MaxK : script = <<CallSplit(P("D"), "chunks", k)>>
    /\ Idle

InitRotate ==
    /\ \E n \in -2..MaxPages, r \in Rotations : fs = MkFs([s \in {"D"} |-> n], r)
    /\ \E a \in Angles : script = <<CallRotate(P("D"), a, P("rotated_D"))>>
    /\ Idle

InitWatermark ==
    /\ \E n \in -2..MaxPages : fs = MkFs([s \in {"D"} |-> n], 0)
    /\ script = <<CallWatermark(P("D"), "DRAFT", P("watermarked_D"))>>
    /\ Idle

InitCreate ==
    /\ fs = MkFs([s \in {"D"} |-> -2], 0)
    /\ \E nl \in 0..MaxNewlines : script = <<CallCreate(P("sample"), nl)>>
    /\ Idle

Init == InitMerge \/ InitSplit \/ InitRotate \/ InitWatermark \/ InitCreate

Next ==
    \/ Dispatch
    \/ DispatchMergeChunks
    \/ MergeStep
    \/ MergeWrite
    \/ SplitBegin
    \/ SplitChunk
    \/ SplitDone
    \/ RotateBegin
    \/ RotateWrite
    \/ WmBegin
    \/ WmRead
    \/ WmPage
    \/ WmWrite
    \/ CreateBegin
    \/ CreateLine
    \/ CreateSave

Spec == Init /\ [][Next]_vars

----------------------------------------------------------------------------
(* Helpers of the properties. *)

RECURSIVE Flatten(_)
Flatten(ss) == IF ss = <<>> THEN <<>> ELSE Head(ss) \o Flatten(Tail(ss))

Range(f) == {f[i] : i \in DOMAIN f}

CeilDiv(n, k) == (n + k - 1) \div k

IsPrefix(s, t) == Len(s) <= Len(t) /\ SubSeq(t, 1, Len(s)) = s

\* s occurs in t as a contiguous block after the first k elements of t.
OccursAt(s, t, k) == k + Len(s) <= Len(t) /\ SubSeq(t, k + 1, k + Len(s)) = s

Bad(fsys, p) == p \notin DOMAIN fsys \/ fsys[p].kind # "pdf"

Finished(name) == pc = "done" /\ op.name = name

Succeeded(name) == Finished(name) /\ result = "ok"

SamePage(a, b) == a.src = b.src /\ a.no = b.no

\* Everything drawn on the canvas so far, in drawing order.
Drawn == Flatten(canvas.pages) \o canvas.code

IsLine(d) == d.kind = "line"

BodyLines == SelectSeq(Drawn, IsLine)

LabelsOn(page) == {j \in 1..Len(page) : page[j].kind = "label"}

\* C1: a merge one of whose inputs is missing or does not load returns
\* failure and leaves the file system exactly as it found it, at every point of
\* the call, wherever the bad input stands in the list.
C1_MergeAtomic ==
    (op.name = "merge" /\ \E i \in 1..Len(op.inputs) : Bad(fs0, op.inputs[i]))
        => /\ fs = fs0
           /\ result # "ok"
           /\ pc = "done" => result = "fail"

C1_Witness ==
    /\ Finished("merge")
    /\ Len(op.inputs) = 3
    /\ ~Bad(fs0, op.inputs[1]) /\ ~Bad(fs0, op.inputs[2])
    /\ Bad(fs0, op.inputs[3])
    /\ Len(acc) >= 3
    /\ result = "fail"
    /\ op.output \notin DOMAIN fs

\* C2: when add_watermark has returned, by whatever path, temp_watermark.pdf
\* is gone and the output file is not a partially written one.
C2_WatermarkCleansUp ==
    Finished("watermark")
        => /\ TempWatermark \notin DOMAIN fs
           /\ op.output \in DOMAIN fs => fs[op.output].kind # "partial"

\* C3: every page of the document create_sample_pdf writes carries exactly
\* one page-number label, and the label on page i shows i.
C3_LabelOnEveryPage ==
    Succeeded("create")
        => \A i \in 1..Len(fs[op.output].pages) :
             LET page == fs[op.output].pages[i].content
             IN /\ Cardinality(LabelsOn(page)) = 1
                /\ \A j \in LabelsOn(page) : page[j].n = i

\* C4: a successful split of an n-page document with k >= 1 writes exactly
\* ceil(n/k) files, all different; the j-th (from 0) holds source pages
\* [j*k, min((j+1)*k, n)) in order, so only the last may be shorter than k;
\* nothing else in the file system changes.
C4_SplitChunks ==
    (Succeeded("split") /\ op.k >= 1)
        => LET D == fs0[op.input].pages
               n == Len(D)
               k == op.k
           IN /\ Len(created) = CeilDiv(n, k)
              /\ Cardinality(Range(created)) = Len(created)
              /\ \A j \in 0..(Len(created) - 1) :
                    /\ fs[created[j + 1]] = PdfFile(SubSeq(D, j * k + 1, Min((j + 1) * k, n)))
                    /\ j < Len(created) - 1 => Len(fs[created[j + 1]].pages) = k
              /\ Flatten([j \in 1..Len(created) |-> fs[created[j]].pages]) = D
              /\ DOMAIN fs = DOMAIN fs0 \cup Range(created)
              /\ \A p \in DOMAIN fs0 : fs[p] = fs0[p]

C4_Witness ==
    /\ Succeeded("split")
    /\ Len(fs0[op.input].pages) = 5
    /\ op.k = 2
    /\ Len(created) = 3
    /\ Len(fs[created[1]].pages) = 2
    /\ Len(fs[created[2]].pages) = 2
    /\ Len(fs[created[3]].pages) = 1

\* C5 as stated: an angle that is not a multiple of 90 is rejected with
\* nothing written, and after an accepted rotate every page's /Rotate is one
\* of 0, 90, 180, 270.
C5_RotateNormalizes ==
    /\ (op.name = "rotate" /\ op.angle % 90 # 0)
         => fs = fs0 /\ result # "ok" /\ acc = <<>>
    /\ Succeeded("rotate")
         => \A i \in 1..Len(fs[op.output].pages) :
               fs[op.output].pages[i].rotate \in {0, 90, 180, 270}

\* C5 amended: an angle that is not a multiple of 90 is rejected before
\* anything is read, rotated or written; a call on a loadable input is turned
\* down before reading only for such an angle; after an accepted rotate every
\* page's /Rotate is its old /Rotate plus the angle as given, which agrees
\* modulo 360 with rotating by the angle reduced modulo 360 (450 acts as 90).
C5_RotateValidates ==
    /\ (op.name = "rotate" /\ op.angle % 90 # 0)
         => fs = fs0 /\ result # "ok" /\ acc = <<>> /\ reader = <<>>
    /\ (Finished("rotate") /\ ~Bad(fs0, op.input) /\ op.angle % 90 = 0)
         => reader = fs0[op.input].pages /\ Len(acc) = Len(reader)
    /\ Succeeded("rotate")
         => /\ op.angle % 90 = 0
            /\ Len(fs[op.output].pages) = Len(fs0[op.input].pages)
            /\ \A i \in 1..Len(fs[op.output].pages) :
                 LET new == fs[op.output].pages[i].rotate
                     old == fs0[op.input].pages[i].rotate
                 IN /\ new = old + op.angle
                    /\ new % 360 = (old + (op.angle % 360)) % 360
                    /\ (op.angle % 360) \in {0, 90, 180, 270}

C5_Witness ==
    /\ Succeeded("rotate")
    /\ op.angle = 450
    /\ Len(fs[op.output].pages) >= 2
    /\ fs0[op.input].pages[1].rotate = 0
    /\ fs[op.output].pages[1].rotate = 450

\* C6: merging, in the order split created them, the files of a successful
\* split of D gives a document with D's pages in D's order.
C6_SplitMergeRoundTrip ==
    (Succeeded("merge") /\ prev.name = "split" /\ prev.k >= 1)
        => /\ fs[P("merged")].kind = "pdf"
           /\ fs[P("merged")].pages = fs[P("D")].pages

C6_Witness ==
    /\ Succeeded("merge")
    /\ prev.name = "split"
    /\ prev.k = 2
    /\ Len(op.inputs) = 3
    /\ Len(fs[op.inputs[3]].pages) = 1
    /\ Len(fs[P("merged")].pages) = 5

\* C7: a successful merge writes its inputs' pages concatenated in input
\* order, and merging A and B, then that result with C, gives the same pages
\* in the same order as merging A, B and C at once.
C7_MergeAssociative ==
    /\ Succeeded("merge")
         => fs[op.output] =
              PdfFile(Flatten([i \in 1..Len(op.inputs) |-> fs0[op.inputs[i]].pages]))
    /\ (Succeeded("merge") /\ op.output = P("ABC") /\ ~Bad(fs, P("AB_C")))
         => /\ fs[P("ABC")].pages = fs[P("A")].pages \o fs[P("B")].pages \o fs[P("C")].pages
            /\ fs[P("AB_C")].pages = fs[P("ABC")].pages

C7_Witness ==
    /\ Succeeded("merge")
    /\ op.output = P("ABC")
    /\ ~Bad(fs, P("AB_C"))
    /\ Len(fs[P("A")].pages) = 2
    /\ Len(fs[P("B")].pages) = 1
    /\ Len(fs[P("C")].pages) = 2
    /\ Len(fs[P("AB_C")].pages) = 5

\* C8: a successful rotate writes as many pages as it read, in the same
\* order, each with the content stream and MediaBox it had.
C8_RotateFrame ==
    Succeeded("rotate")
        => LET in  == fs0[op.input].pages
               out == fs[op.output].pages
           IN /\ Len(out) = Len(in)
              /\ \A i \in 1..Len(out) :
                    /\ SamePage(out[i], in[i])
                    /\ out[i].content = in[i].content
                    /\ out[i].box = in[i].box
              /\ fs[op.input] = fs0[op.input]

C8_Witness ==
    /\ Succeeded("rotate")
    /\ op.angle = 90
    /\ Len(fs[op.output].pages) = 4
    /\ fs[op.output].pages[4].content = Tokens
    /\ fs[op.output].pages[4].rotate = fs0[op.input].pages[4].rotate + 90

\* C9 as stated: a successful watermark keeps page count and order, and every
\* page's content stream is at least as long as before and begins with the
\* operators it had.
C9_WatermarkPrefix ==
    Succeeded("watermark")
        => LET in  == fs0[op.input].pages
               out == fs[op.output].pages
           IN /\ Len(out) = Len(in)
              /\ \A i \in 1..Len(out) :
                    /\ SamePage(out[i], in[i])
                    /\ Len(out[i].content) >= Len(in[i].content)
                    /\ IsPrefix(in[i].content, out[i].content)

\* C9 amended: a successful watermark keeps page count and order, and every
\* page's content stream is at least as long as before and holds the
\* operators it had, unchanged and in one block, behind at most an opening q
\* and ahead of the whole of the overlay's operators.
C9_WatermarkKeepsContent ==
    Succeeded("watermark")
        => LET in  == fs0[op.input].pages
               out == fs[op.output].pages
               wm  == OverlayPage(op.text).content
           IN /\ Len(out) = Len(in)
              /\ \A i \in 1..Len(out) :
                    /\ SamePage(out[i], in[i])
                    /\ Len(out[i].content) >= Len(in[i].content)
                    /\ \E k \in 0..1 :
                         /\ OccursAt(in[i].content, out[i].content, k)
                         /\ k = 1 => out[i].content[1] = "q"
                         /\ \E m \in (k + Len(in[i].content))..Len(out[i].content) :
                              OccursAt(wm, out[i].content, m)

C9_Witness ==
    /\ Succeeded("watermark")
    /\ Len(fs[op.output].pages) = 4
    /\ OccursAt(Tokens, fs[op.output].pages[4].content, 1)
    /\ Len(fs[op.output].pages[4].content) > Len(Tokens) + 5

\* C10 as stated: when create_sample_pdf has finished drawing, every body
\* line was drawn at a y between the margins, the lines were drawn in input
\* order, and the show-page breaks are as many as the times the cursor
\* crossed the bottom margin.
C10_BreakPerCrossing ==
    Finished("create")
        => /\ \A j \in 1..Len(BodyLines) :
                /\ BodyLines[j].y >= BottomMargin
                /\ BodyLines[j].y <= PageHeight - TopMargin
                /\ BodyLines[j].n = j
           /\ breaks = crossings

\* C10 amended: at every point of the body loop and after it, every body
\* line drawn so far was drawn at a y between the margins, the lines are drawn
\* in input order, none missing, and the show-page breaks are as many as the
\* crossings of the bottom margin that another line followed: a crossing
\* made by the last line drawn has no break (yet).
C10_Pagination ==
    (op.name = "create" /\ pc \in {"create_loop", "done"})
        => /\ Len(BodyLines) = idx - 1
           /\ \A j \in 1..Len(BodyLines) :
                /\ BodyLines[j].y >= BottomMargin
                /\ BodyLines[j].y <= PageHeight - TopMargin
                /\ BodyLines[j].n = j
           /\ breaks = crossings - (IF y < BottomMargin THEN 1 ELSE 0)
           /\ pc = "done" => Len(BodyLines) = NumLines(op.newlines)

C10_Witness ==
    /\ Finished("create")
    /\ breaks = 1
    /\ crossings = 2
    /\ Len(canvas.pages) = 2
    /\ Len(BodyLines) = 65

====
